---- MODULE Spec2Model ----
(***************************************************************************)
(* Model of the peer manager of packages/core-api-p2p/lib/down.js (class   *)
(* Down): the registry this.peers, the update cycle (discoverPeers,        *)
(* cleanPeers, re-seed), acceptNewPeer, the peer selectors, downloadBlocks *)
(* and broadcastBlock.  One action is one synchronous run of a handler     *)
(* between two suspension points (await); the outcome of every network     *)
(* call (ping, getPeers, postBlock, downloadBlocks of a Peer) is chosen by *)
(* the environment.                                                        *)
(***************************************************************************)
EXTENDS Integers, Sequences, FiniteSets, TLC

(* ------------------------------ bounds -------------------------------- *)

\* longest configured seed list (config.peers.list)
MaxSeeds == 2
\* longest peer list a queried peer answers with (Peer.getPeers)
MaxList == 1
\* last value of the clock (new Date().getTime())
MaxTime == 3

(* ----------------------------- the inputs ----------------------------- *)

Loopback == "127.0.0.1"
MappedLoopback == "::ffff:127.0.0.1"
V6Loopback == "::1"
Remote == {"10.0.0.1", "10.0.0.2"}
Addr == {Loopback, MappedLoopback, V6Loopback} \cup Remote

Ports == {4001, 4002}
LocalNethash == "mainnet"
Nethashes == {"mainnet", "devnet"}

\* a value that is not there (a key that is no key, an ip never asked)
Undefined == "undefined"
\* an optional numeric argument: <<>> when it is not passed, <<d>> for the number d
NotPassed == <<>>
Passed(d) == <<d>>

\* the latency an answered ping observes
Latencies == {2}
\* the values a registered Peer's fields are drawn from where a registry is an
\* input: delay, downloadSize (100 is a full download) and ban
Delays == {1, 3}
DownloadSizes == {0, 100}
BanStamps == {0, 2}
\* the acceptableDelay arguments
DelayArgs == {NotPassed, Passed(0), Passed(2)}
\* the fromBlockHeight arguments
Heights == {1}

(* ------------------------------ Peer ---------------------------------- *)

\* new Peer(ip, port, config): not banned, never probed
NewPeer(ip, port) ==
  [ip |-> ip, port |-> port, ban |-> 0, delay |-> 0, downloadSize |-> 0]

\* the Peer after a ping that was answered after lat milliseconds
Pinged(p, lat) == [p EXCEPT !.delay = lat]

\* utils/is-localhost
isLocalhost(ip) == ip \in {Loopback, MappedLoopback, V6Loopback}

(* ---------------------------- the registry ---------------------------- *)

\* this.peers = {}
NoPeers == [k \in {} |-> NewPeer(k, 0)]

\* this.peers[ip] = p
Put(ps, ip, p) == [k \in DOMAIN ps \cup {ip} |-> IF k = ip THEN p ELSE ps[k]]

\* delete this.peers[ip]
Delete(ps, ip) == [k \in DOMAIN ps \ {ip} |-> ps[k]]

\* Object.keys(this.peers).length
Size(ps) == Cardinality(DOMAIN ps)

\* the addresses of a seed list
SeedIps(list) == {list[i].ip : i \in 1..Len(list)}

\* list.forEach(peer => (this.peers[peer.ip] = new Peer(peer.ip, peer.port, config)))
RECURSIVE SeedAll(_, _)
SeedAll(ps, list) ==
  IF list = <<>> THEN ps
  ELSE SeedAll(Put(ps, Head(list).ip, NewPeer(Head(list).ip, Head(list).port)),
               Tail(list))

\* list.filter(peer => peer.ip !== '127.0.0.1' || peer.port !== this.config.server.port)
NotSelf(list, serverPort) ==
  SelectSeq(list, LAMBDA s : s.ip # Loopback \/ s.port # serverPort)

\* the registry the constructor leaves (it throws when the list is absent)
Constructor(cfg) ==
  IF ~cfg.hasList THEN NoPeers
  ELSE SeedAll(NoPeers, NotSelf(cfg.list, cfg.port))

\* if (!config.peers.list) throw: otherwise the constructor returns a manager
Constructed(cfg) == cfg.hasList

(* ------------------------- the peer selectors ------------------------- *)

\* if (acceptableDelay): undefined and 0 are falsy
Truthy(D) == D # NotPassed /\ D[1] # 0

\* a ban filter that lets every key pass
NotBannedOff(ps, t) == DOMAIN ps

\* keys.filter(key => this.peers[key].ban < new Date().getTime())
NotBanned(ps, t) == {k \in DOMAIN ps : ps[k].ban < t}

\* if (acceptableDelay) keys = keys.filter(key => this.peers[key].delay < acceptableDelay)
WithinDelay(ps, keys, D) ==
  IF Truthy(D) THEN {k \in keys : ps[k].delay < D[1]} ELSE keys

\* what a selector call ends with: a Peer, or the RangeError of a recursion
\* that no peer ends (Maximum call stack size exceeded)
Picked(k, again) == [kind |-> "peer", ip |-> k, retried |-> again]
Overflow == [kind |-> "RangeError", ip |-> Undefined, retried |-> TRUE]

\* getRandomPeer(acceptableDelay) called at clock t and returning at clock e.
\* The ban filter reads new Date().getTime() once for each key, on every level
\* of the recursion, while the clock runs from t to e: a key whose ban is below
\* t passes every reading, a key whose ban is below e passes a late one.
\* keys[keys.length * Math.random() << 0] is any of the keys left; with no key
\* left the call calls this.getRandomPeer(), without the argument (delete
\* this.peers[undefined] removes nothing), and a recursion that no reading of
\* the clock ends is a RangeError.
getRandomPeer(ps, t, e, D) ==
  LET atOnce == {Picked(k, FALSE) : k \in WithinDelay(ps, NotBanned(ps, e), D)}
      again == {Picked(k, TRUE) : k \in NotBanned(ps, e)}
      never == IF NotBanned(ps, t) = {} THEN {Overflow} ELSE {}
  IN  IF WithinDelay(ps, NotBanned(ps, t), D) = {}
        THEN atOnce \cup again \cup never
        ELSE atOnce

\* a download selector that does not look at downloadSize
getRandomDownloadBlocksPeerAnyCapacity(ps, t, e) == getRandomPeer(ps, t, e, NotPassed)

\* getRandomDownloadBlocksPeer() called at clock t and returning at clock e
getRandomDownloadBlocksPeer(ps, t, e) ==
  LET atOnce == {Picked(k, FALSE) : k \in {x \in NotBanned(ps, e) : ps[x].downloadSize # 100}}
  IN  IF {k \in NotBanned(ps, t) : ps[k].downloadSize # 100} = {}
        THEN atOnce \cup getRandomPeer(ps, t, e, NotPassed)
        ELSE atOnce

(* ------------------------------ the state ----------------------------- *)

VARIABLES
  config,   \* the configuration: peers.list, server.port, network.nethash
  testnet,  \* process.env.ARK_ENV === 'testnet'
  alive,    \* the constructor returned a manager
  peers,    \* this.peers: ip -> Peer
  now,      \* new Date().getTime()
  uns,      \* the running updateNetworkStatus(): where it is suspended
  sweep,    \* the locals of the running cleanPeers(), of each of its callers
  acc,      \* the last acceptNewPeer(): its argument and how it ended
  sel,      \* the last selector call: its argument and what it returned
  dl,       \* the running downloadBlocks()
  bc,       \* the running broadcastBlock()
  met,       \* the last metric call: what it read and what it returned
  disc      \* the running discoverPeers() called by itself

vars == <<config, testnet, alive, peers, now, uns, sweep, acc, sel, dl, bc, met, disc>>
useVars == <<sel, dl, bc>>
netVars == <<uns, sweep, acc>>

\* the seed entries: the node itself, another node of the same host, a remote node
SeedPool ==
  {[ip |-> Loopback, port |-> p] : p \in Ports}
    \cup {[ip |-> "10.0.0.1", port |-> 4001]}

RECURSIVE SeqsUpTo(_, _)
SeqsUpTo(S, n) ==
  IF n = 0 THEN {<<>>}
  ELSE LET shorter == SeqsUpTo(S, n - 1)
       IN  shorter \cup {Append(q, x) : q \in shorter, x \in S}

\* the configurations: with a seed list, or with none (hasList is FALSE)
Configs ==
  [hasList : {TRUE}, list : SeqsUpTo(SeedPool, MaxSeeds),
   port : {4001}, nethash : {LocalNethash}]
    \cup [hasList : {FALSE}, list : {<<>>}, port : {4001}, nethash : {LocalNethash}]

\* the answers of a queried peer: {ip, port, status}
ListPool ==
  [ip : {V6Loopback, Loopback} \cup Remote, port : {4001}, status : {"OK", "EUNAVAILABLE"}]
PeerLists == SeqsUpTo(ListPool, MaxList)
\* the answers given while the update cycle and the sweeps run
NetLists ==
  {l \in PeerLists : \A i \in 1..Len(l) : l[i].ip \in {Loopback, "10.0.0.1"}}

\* the candidates handed to acceptNewPeer
Candidates == [ip : Addr, port : {4001}, nethash : Nethashes]
\* the candidates handed to it while the update cycle and the sweeps run
NetCandidates ==
  {c \in Candidates : c.ip \in {Loopback, "10.0.0.1"} /\ c.nethash = LocalNethash}

UnsIdle == [pc |-> "idle", asked |-> Undefined]
\* who runs a cleanPeers(): the update cycle, or a caller of the method itself
Owners == {"cycle", "call"}
\* touched: another operation changed the registry while the probes were out;
\* stale: the addresses probed under which another Peer was registered since
NoSweep ==
  [pc |-> "idle", pending |-> {}, max |-> 0, count |-> 0, wrongpeers |-> 0,
   timeout |-> 0, touched |-> FALSE, stale |-> {}]
NoSweeps == [w \in Owners |-> NoSweep]
NoCandidate == [ip |-> Undefined, port |-> 0, nethash |-> Undefined]
NoAccept ==
  [cand |-> NoCandidate, result |-> "none", known |-> FALSE, changed |-> FALSE,
   listed |-> FALSE]

\* called and at: the clock when the call was made and when it returned
NoSelect == [op |-> "none", D |-> NotPassed, out |-> Overflow, called |-> 0, at |-> 0]
NoDownload == [pc |-> "idle", peer |-> Undefined, from |-> 0, error |-> "none"]
NoBroadcast ==
  [pc |-> "idle", pending |-> {}, acked |-> {}, failed |-> {}, unsettled |-> 0]

\* what a change of the registry from ps to ps2 by another operation than the
\* sweep of actor means to the sweeps whose probes are out; fresh are the
\* addresses under which the operation registered a new Peer
Noted(sw, actor, ps, ps2, fresh) ==
  [w \in Owners |->
     IF w = actor \/ sw[w].pc # "probing" THEN sw[w]
     ELSE [sw[w] EXCEPT !.touched = @ \/ (ps2 # ps),
                        !.stale = @ \cup (fresh \cap sw[w].pending)]]

\* a number that may be missing: <<>> is undefined, <<n>> the number n
NoData == <<>>
NoRatio == [kind |-> "none", num |-> 0, den |-> 0]
NoMetric == [op |-> "none", slot |-> 0, height |-> NoData, ratio |-> NoRatio]

\* got and before: the list received and the registry it was admitted into
NoDiscover == [pc |-> "idle", asked |-> Undefined, got |-> <<>>, before |-> <<>>]

Init ==
  /\ config \in Configs
  /\ testnet \in BOOLEAN
  /\ alive = Constructed(config)
  /\ peers = Constructor(config)
  /\ now = 1
  /\ uns = UnsIdle
  /\ sweep = NoSweeps
  /\ acc = NoAccept
  /\ sel = NoSelect
  /\ dl = NoDownload
  /\ bc = NoBroadcast
  /\ met = NoMetric
  /\ disc = NoDiscover

(* ------------------------ updateNetworkStatus ------------------------- *)

\* discoverPeers() up to its await: this.getRandomPeer().getPeers() is sent to a
\* peer, or getRandomPeer() ends in a RangeError, which every nested
\* discoverPeers() of the catch block meets again, so that the call rejects
Enter(ps, t) ==
  {IF o.kind = "peer" THEN [pc |-> "listing", asked |-> o.ip]
   ELSE [pc |-> "caught", asked |-> Undefined]
   : o \in UNION {getRandomPeer(ps, t, e, NotPassed) : e \in t..MaxTime}}

\* updateNetworkStatus() is called; in testnet mode it does nothing
UpdateNetworkStatus ==
  /\ alive /\ uns.pc = "idle"
  /\ IF testnet THEN uns' = uns ELSE uns' \in Enter(peers, now)
  /\ UNCHANGED <<config, testnet, alive, peers, now, sweep, acc, sel, dl, bc, met, disc>>

\* an admission that does not look whether the address is registered
RECURSIVE AdmitOverwrites(_, _)
AdmitOverwrites(ps, list) ==
  IF list = <<>> THEN ps
  ELSE LET c == Head(list)
       IN  AdmitOverwrites(IF c.status = "OK" /\ ~isLocalhost(c.ip)
                             THEN Put(ps, c.ip, NewPeer(c.ip, c.port))
                             ELSE ps,
                           Tail(list))

\* list.forEach(peer => { if (peer.status === 'OK' && !this.peers[peer.ip]
\*   && !isLocalhost(peer.ip)) this.peers[peer.ip] = new Peer(...) })
RECURSIVE Admit(_, _)
Admit(ps, list) ==
  IF list = <<>> THEN ps
  ELSE LET c == Head(list)
       IN  Admit(IF c.status = "OK" /\ c.ip \notin DOMAIN ps /\ ~isLocalhost(c.ip)
                   THEN Put(ps, c.ip, NewPeer(c.ip, c.port))
                   ELSE ps,
                 Tail(list))

\* the queried peer answers with its list: discoverPeers() admits and returns
DiscoverOk(list) ==
  /\ uns.pc = "listing"
  /\ peers' = Admit(peers, list)
  /\ uns' = [pc |-> "discovered", asked |-> Undefined]
  /\ sweep' = Noted(sweep, "none", peers, peers', DOMAIN peers' \ DOMAIN peers)
  /\ UNCHANGED <<config, testnet, alive, now, acc, sel, dl, bc, met, disc>>

\* the request for the list fails
DiscoverFail ==
  /\ uns.pc = "listing"
  /\ uns' = [uns EXCEPT !.pc = "listFailed"]
  /\ UNCHANGED <<config, testnet, alive, peers, now, sweep, acc, sel, dl, bc, met, disc>>

\* catch (error) { return this.discoverPeers() }
DiscoverRetry ==
  /\ uns.pc = "listFailed"
  /\ uns' \in Enter(peers, now)
  /\ UNCHANGED <<config, testnet, alive, peers, now, sweep, acc, sel, dl, bc, met, disc>>

\* cleanPeers(fast) up to its await: one ping per registered peer is sent
StartOf(ps, fast) ==
  [NoSweep EXCEPT !.pc = "probing", !.pending = DOMAIN ps, !.max = Size(ps),
                  !.timeout = IF fast THEN 1000 ELSE 5000]

\* await this.cleanPeers() of updateNetworkStatus()
SweepStart ==
  /\ uns.pc = "discovered"
  /\ sweep' = [sweep EXCEPT !["cycle"] = StartOf(peers, FALSE)]
  /\ uns' = [UnsIdle EXCEPT !.pc = "sweeping"]
  /\ UNCHANGED <<config, testnet, alive, peers, now, acc, sel, dl, bc, met, disc>>

\* cleanPeers(fast) is called by itself
CleanPeers(fast) ==
  /\ alive /\ sweep["call"].pc = "idle"
  /\ sweep' = [sweep EXCEPT !["call"] = StartOf(peers, fast)]
  /\ UNCHANGED <<config, testnet, alive, peers, now, uns, acc, sel, dl, bc, met, disc>>

\* a ping is answered: printTracker(..., ++count, max); the Peer pinged is the
\* one that was registered when the sweep started
SweepProbeOk(w, ip, lat) ==
  /\ sweep[w].pc = "probing" /\ ip \in sweep[w].pending
  /\ peers' = IF ip \in DOMAIN peers /\ ip \notin sweep[w].stale
                THEN Put(peers, ip, Pinged(peers[ip], lat))
                ELSE peers
  /\ sweep' = [Noted(sweep, w, peers, peers', {}) EXCEPT
                 ![w] = [@ EXCEPT !.pending = @ \ {ip}, !.count = @ + 1,
                                  !.stale = @ \ {ip}]]
  /\ UNCHANGED <<config, testnet, alive, now, uns, acc, sel, dl, bc, met, disc>>

\* a failed ping that is counted and leaves the entry registered
SweepProbeFailKeepsEntry(w, ip) ==
  /\ sweep[w].pc = "probing" /\ ip \in sweep[w].pending
  /\ sweep' = [sweep EXCEPT ![w] = [@ EXCEPT !.pending = @ \ {ip}, !.wrongpeers = @ + 1]]
  /\ UNCHANGED <<config, testnet, alive, peers, now, uns, acc, sel, dl, bc, met, disc>>

\* a ping fails: wrongpeers++; delete this.peers[ip], whichever Peer is
\* registered under ip by now
SweepProbeFail(w, ip) ==
  /\ sweep[w].pc = "probing" /\ ip \in sweep[w].pending
  /\ peers' = Delete(peers, ip)
  /\ sweep' = [Noted(sweep, w, peers, peers', {}) EXCEPT
                 ![w] = [@ EXCEPT !.pending = @ \ {ip}, !.wrongpeers = @ + 1,
                                  !.stale = @ \ {ip}]]
  /\ UNCHANGED <<config, testnet, alive, now, uns, acc, sel, dl, bc, met, disc>>

\* a join that does not wait once a probe has failed
SweepJoinAtFirstFailure(w) ==
  /\ sweep[w].pc = "probing" /\ (sweep[w].pending = {} \/ sweep[w].wrongpeers >= 1)
  /\ sweep' = [sweep EXCEPT ![w] = NoSweep]
  /\ uns' = IF w = "cycle" THEN [uns EXCEPT !.pc = "swept"] ELSE uns
  /\ UNCHANGED <<config, testnet, alive, peers, now, acc, sel, dl, bc, met, disc>>

\* logger.info(`Found ${max - wrongpeers}/${max} responsive peers on the network.`)
Summary(sw) == sw.max - sw.wrongpeers

\* Promise.all resolves: the summary is logged and cleanPeers() returns, to
\* updateNetworkStatus() or to its caller; its locals are gone
SweepJoin(w) ==
  /\ sweep[w].pc = "probing" /\ sweep[w].pending = {}
  /\ sweep' = [sweep EXCEPT ![w] = NoSweep]
  /\ uns' = IF w = "cycle" THEN [uns EXCEPT !.pc = "swept"] ELSE uns
  /\ UNCHANGED <<config, testnet, alive, peers, now, acc, sel, dl, bc, met, disc>>

\* a check that runs again without seeding the registry
UnsCheckSkipsSeeding ==
  /\ uns.pc = "swept"
  /\ IF Size(peers) < Len(config.list) - 1
       THEN /\ peers' = peers
            /\ uns' \in Enter(peers', now)
       ELSE /\ peers' = peers
            /\ uns' = UnsIdle
  /\ sweep' = Noted(sweep, "none", peers, peers', {})
  /\ UNCHANGED <<config, testnet, alive, now, acc, sel, dl, bc, met, disc>>

\* after cleanPeers(): re-seed and run again when the registry is too small
UnsCheck ==
  /\ uns.pc = "swept"
  /\ IF Size(peers) < Len(config.list) - 1
       THEN /\ peers' = SeedAll(peers, config.list)
            /\ uns' \in Enter(peers', now)
            /\ sweep' = Noted(sweep, "none", peers, peers', SeedIps(config.list))
       ELSE /\ peers' = peers
            /\ uns' = UnsIdle
            /\ sweep' = sweep
  /\ UNCHANGED <<config, testnet, alive, now, acc, sel, dl, bc, met, disc>>

\* catch (error): re-seed and run again
UnsCatch ==
  /\ uns.pc = "caught"
  /\ peers' = SeedAll(peers, config.list)
  /\ uns' \in Enter(peers', now)
  /\ sweep' = Noted(sweep, "none", peers, peers', SeedIps(config.list))
  /\ UNCHANGED <<config, testnet, alive, now, acc, sel, dl, bc, met, disc>>

(* --------------------------- acceptNewPeer ---------------------------- *)

\* the checks in another order: the loopback check before the network check
AcceptSyncLocalhostFirst(ps, tn, cfg, cand) ==
  IF cand.ip \in DOMAIN ps \/ tn THEN [result |-> "noop", peers |-> ps]
  ELSE IF cand.ip = MappedLoopback \/ cand.ip = Loopback
    THEN [result |-> "LocalhostRejected", peers |-> ps]
  ELSE IF cand.nethash # cfg.nethash THEN [result |-> "WrongNetwork", peers |-> ps]
  ELSE [result |-> "probing", peers |-> ps]

\* the checks in another order: the network check before the early return
AcceptSyncNethashFirst(ps, tn, cfg, cand) ==
  IF cand.nethash # cfg.nethash THEN [result |-> "WrongNetwork", peers |-> ps]
  ELSE IF cand.ip \in DOMAIN ps \/ tn THEN [result |-> "noop", peers |-> ps]
  ELSE IF cand.ip = MappedLoopback \/ cand.ip = Loopback
    THEN [result |-> "LocalhostRejected", peers |-> ps]
  ELSE [result |-> "probing", peers |-> ps]

\* acceptNewPeer(peer) up to its await: how it ends (a return, an Error, or the
\* ping of the new Peer) and the registry it leaves
AcceptSync(ps, tn, cfg, cand) ==
  IF cand.ip \in DOMAIN ps \/ tn THEN [result |-> "noop", peers |-> ps]
  ELSE IF cand.nethash # cfg.nethash THEN [result |-> "WrongNetwork", peers |-> ps]
  ELSE IF cand.ip = MappedLoopback \/ cand.ip = Loopback
    THEN [result |-> "LocalhostRejected", peers |-> ps]
  ELSE [result |-> "probing", peers |-> ps]

\* acceptNewPeer(cand) is called: it returns, throws, or pings the new Peer
AcceptNewPeer(cand) ==
  /\ alive /\ acc.result # "probing"
  /\ LET r == AcceptSync(peers, testnet, config, cand)
     IN  /\ peers' = r.peers
         /\ acc' = [cand |-> cand, result |-> r.result,
                    known |-> cand.ip \in DOMAIN peers, changed |-> r.peers # peers,
                    listed |-> cand.ip \in DOMAIN r.peers]
  /\ sweep' = Noted(sweep, "none", peers, peers', {})
  /\ UNCHANGED <<config, testnet, alive, now, uns, sel, dl, bc, met, disc>>

\* an answered ping after which the new Peer is not stored
AcceptProbeOkForgets(lat) ==
  /\ acc.result = "probing"
  /\ acc' = [acc EXCEPT !.result = "added", !.changed = FALSE,
                        !.listed = acc.cand.ip \in DOMAIN peers]
  /\ UNCHANGED <<config, testnet, alive, peers, now, uns, sweep, sel, dl, bc, met, disc>>

\* the ping is answered: this.peers[peer.ip] = npeer
AcceptProbeOk(lat) ==
  /\ acc.result = "probing"
  /\ peers' = Put(peers, acc.cand.ip, Pinged(NewPeer(acc.cand.ip, acc.cand.port), lat))
  /\ acc' = [acc EXCEPT !.result = "added", !.changed = peers' # peers,
                        !.listed = acc.cand.ip \in DOMAIN peers']
  /\ sweep' = Noted(sweep, "none", peers, peers', {acc.cand.ip})
  /\ UNCHANGED <<config, testnet, alive, now, uns, sel, dl, bc, met, disc>>

\* the ping fails: logger.debug, nothing is raised
AcceptProbeFail ==
  /\ acc.result = "probing"
  /\ acc' = [acc EXCEPT !.result = "dropped", !.changed = FALSE,
                        !.listed = acc.cand.ip \in DOMAIN peers]
  /\ UNCHANGED <<config, testnet, alive, peers, now, uns, sweep, sel, dl, bc, met, disc>>

Next ==
  \/ UpdateNetworkStatus
  \/ \E list \in NetLists : DiscoverOk(list)
  \/ DiscoverFail
  \/ DiscoverRetry
  \/ SweepStart
  \/ \E fast \in BOOLEAN : CleanPeers(fast)
  \/ \E w \in Owners, ip \in Addr, lat \in Latencies : SweepProbeOk(w, ip, lat)
  \/ \E w \in Owners, ip \in Addr : SweepProbeFail(w, ip)
  \/ \E w \in Owners : SweepJoin(w)
  \/ UnsCheck
  \/ UnsCatch
  \/ \E cand \in NetCandidates : AcceptNewPeer(cand)
  \/ \E lat \in Latencies : AcceptProbeOk(lat)
  \/ AcceptProbeFail

Spec == Init /\ [][Next]_vars

\* one step of a running updateNetworkStatus(): a settled request and its
\* continuation
UnsStep ==
  \/ \E list \in NetLists : DiscoverOk(list)
  \/ DiscoverFail
  \/ DiscoverRetry
  \/ SweepStart
  \/ \E ip \in Addr, lat \in Latencies : SweepProbeOk("cycle", ip, lat)
  \/ \E ip \in Addr : SweepProbeFail("cycle", ip)
  \/ SweepJoin("cycle")
  \/ UnsCheck
  \/ UnsCatch

UpdateNext ==
  \/ UpdateNetworkStatus
  \/ UnsStep

\* the update cycle by itself; every request settles and every continuation runs
FairUpdate == Init /\ [][UpdateNext]_vars /\ WF_vars(UnsStep)

(* ------------- selection, download and broadcast on a registry -------- *)

\* the registries these operations are run on: any Peers at the remote addresses
PeerStates(ip) ==
  [ip : {ip}, port : {4001}, ban : BanStamps, delay : Delays, downloadSize : DownloadSizes]
Registries ==
  UNION {{ps \in [S -> UNION {PeerStates(a) : a \in S}] : \A a \in S : ps[a].ip = a}
           : S \in SUBSET Remote}

UseConfig ==
  [hasList |-> TRUE, list |-> <<[ip |-> "10.0.0.1", port |-> 4001]>>,
   port |-> 4001, nethash |-> LocalNethash]

UseInit ==
  /\ config = UseConfig
  /\ testnet = FALSE
  /\ alive = Constructed(config)
  /\ peers \in Registries
  /\ now = 1
  /\ uns = UnsIdle
  /\ sweep = NoSweeps
  /\ acc = NoAccept
  /\ sel = NoSelect
  /\ dl = NoDownload
  /\ bc = NoBroadcast
  /\ met = NoMetric
  /\ disc = NoDiscover

\* the clock advances
Tick ==
  /\ now < MaxTime
  /\ now' = now + 1
  /\ UNCHANGED <<config, testnet, alive, peers, uns, sweep, acc, sel, dl, bc, met, disc>>

\* getRandomPeer(D) is called
GetRandomPeer(D) ==
  /\ alive
  /\ \E e \in now..MaxTime :
       /\ now' = e
       /\ \E o \in getRandomPeer(peers, now, e, D) :
            sel' = [op |-> "getRandomPeer", D |-> D, out |-> o, called |-> now, at |-> e]
  /\ UNCHANGED <<config, testnet, alive, peers, uns, sweep, acc, dl, bc, met, disc>>

\* getRandomDownloadBlocksPeer() is called
GetRandomDownloadBlocksPeer ==
  /\ alive
  /\ \E e \in now..MaxTime :
       /\ now' = e
       /\ \E o \in getRandomDownloadBlocksPeer(peers, now, e) :
            sel' = [op |-> "getRandomDownloadBlocksPeer", D |-> NotPassed, out |-> o,
                    called |-> now, at |-> e]
  /\ UNCHANGED <<config, testnet, alive, peers, uns, sweep, acc, dl, bc, met, disc>>

SelectNext ==
  \/ Tick
  \/ \E D \in DelayArgs : GetRandomPeer(D)
  \/ GetRandomDownloadBlocksPeer

SpecSelect == UseInit /\ [][SelectNext]_vars

(* --------------------------- downloadBlocks --------------------------- *)

\* downloadBlocks(h) up to its await: the peer chosen is pinged, or the RangeError
\* of getRandomDownloadBlocksPeer(), raised outside the try, rejects the call
DownloadSelect(ps, t, e, h) ==
  {IF o.kind = "peer"
     THEN [pc |-> "pinging", peer |-> o.ip, from |-> h, error |-> "none"]
     ELSE [pc |-> "rejected", peer |-> Undefined, from |-> h, error |-> "RangeError"]
   : o \in getRandomDownloadBlocksPeer(ps, t, e)}

\* downloadBlocks(h) is called
DownloadBlocks(h) ==
  /\ alive /\ dl.pc \in {"idle", "returned", "rejected"}
  /\ \E e \in now..MaxTime : now' = e /\ dl' \in DownloadSelect(peers, now, e, h)
  /\ UNCHANGED <<config, testnet, alive, peers, uns, sweep, acc, sel, bc, met, disc>>

\* the ping is answered: return randomPeer.downloadBlocks(fromBlockHeight)
DownloadPingOk(lat) ==
  /\ dl.pc = "pinging"
  /\ peers' = Put(peers, dl.peer, Pinged(peers[dl.peer], lat))
  /\ dl' = [dl EXCEPT !.pc = "downloading"]
  /\ UNCHANGED <<config, testnet, alive, now, uns, sweep, acc, sel, bc, met, disc>>

\* the ping fails
DownloadPingFail ==
  /\ dl.pc = "pinging"
  /\ dl' = [dl EXCEPT !.pc = "pingFailed"]
  /\ UNCHANGED <<config, testnet, alive, peers, now, uns, sweep, acc, sel, bc, met, disc>>

\* catch (error) { return this.downloadBlocks(fromBlockHeight) }
DownloadRetry ==
  /\ dl.pc = "pingFailed"
  /\ \E e \in now..MaxTime : now' = e /\ dl' \in DownloadSelect(peers, now, e, dl.from)
  /\ UNCHANGED <<config, testnet, alive, peers, uns, sweep, acc, sel, bc, met, disc>>

\* the peer answers with the blocks: downloadBlocks() resolves
DownloadOk ==
  /\ dl.pc = "downloading"
  /\ dl' = [dl EXCEPT !.pc = "returned"]
  /\ UNCHANGED <<config, testnet, alive, peers, now, uns, sweep, acc, sel, bc, met, disc>>

\* the peer's download fails: the returned promise was not awaited inside the
\* try, so the rejection passes the catch and downloadBlocks() rejects
DownloadFail ==
  /\ dl.pc = "downloading"
  /\ dl' = [dl EXCEPT !.pc = "rejected", !.error = "DownloadFailure"]
  /\ UNCHANGED <<config, testnet, alive, peers, now, uns, sweep, acc, sel, bc, met, disc>>

\* one step of a running downloadBlocks(): a settled request and its continuation
DownloadStep ==
  \/ \E lat \in Latencies : DownloadPingOk(lat)
  \/ DownloadPingFail
  \/ DownloadRetry
  \/ DownloadOk
  \/ DownloadFail

DownloadNext ==
  \/ Tick
  \/ \E h \in Heights : DownloadBlocks(h)
  \/ DownloadStep

\* every request settles and every continuation runs
FairDownload == UseInit /\ [][DownloadNext]_vars /\ WF_vars(DownloadStep)

(* --------------------------- broadcastBlock --------------------------- *)

\* broadcastBlock(block): Promise.all(bpeers.map(peer => peer.postBlock(...)))
BroadcastBlock ==
  /\ alive /\ bc.pc # "sending" /\ bc.pending = {}
  /\ bc' = [NoBroadcast EXCEPT !.pc = "sending", !.pending = DOMAIN peers]
  /\ UNCHANGED <<config, testnet, alive, peers, now, uns, sweep, acc, sel, dl, met, disc>>

\* a peer acknowledges the block
PostOk(ip) ==
  /\ ip \in bc.pending
  /\ bc' = [bc EXCEPT !.pending = @ \ {ip}, !.acked = @ \cup {ip}]
  /\ UNCHANGED <<config, testnet, alive, peers, now, uns, sweep, acc, sel, dl, met, disc>>

\* a peer's postBlock fails: Promise.all rejects at the first failure, whatever
\* is still in flight
PostFail(ip) ==
  /\ ip \in bc.pending
  /\ bc' = [bc EXCEPT !.pending = @ \ {ip}, !.failed = @ \cup {ip},
                      !.pc = IF bc.pc = "sending" THEN "rejected" ELSE @,
                      !.unsettled = IF bc.pc = "sending"
                                      THEN Cardinality(bc.pending \ {ip}) ELSE @]
  /\ UNCHANGED <<config, testnet, alive, peers, now, uns, sweep, acc, sel, dl, met, disc>>

\* every postBlock was acknowledged: Promise.all resolves with the answers
BroadcastResolve ==
  /\ bc.pc = "sending" /\ bc.pending = {}
  /\ bc' = [bc EXCEPT !.pc = "resolved", !.unsettled = 0]
  /\ UNCHANGED <<config, testnet, alive, peers, now, uns, sweep, acc, sel, dl, met, disc>>

BroadcastNext ==
  \/ BroadcastBlock
  \/ \E ip \in Addr : PostOk(ip)
  \/ \E ip \in Addr : PostFail(ip)
  \/ BroadcastResolve

SpecBroadcast == UseInit /\ [][BroadcastNext]_vars

(* ---------------------------- discoverPeers --------------------------- *)

\* discoverPeers() up to its await: the peer chosen is asked for its list, or the
\* RangeError of getRandomPeer() returns at every level of the catch's calls
\* and rejects the call
DiscoverSelect(ps, t, e) ==
  {IF o.kind = "peer"
     THEN [NoDiscover EXCEPT !.pc = "listing", !.asked = o.ip]
     ELSE [NoDiscover EXCEPT !.pc = "rejected"]
   : o \in getRandomPeer(ps, t, e, NotPassed)}

\* discoverPeers() is called
DiscoverPeers ==
  /\ alive /\ disc.pc \in {"idle", "done", "rejected"}
  /\ \E e \in now..MaxTime : now' = e /\ disc' \in DiscoverSelect(peers, now, e)
  /\ UNCHANGED <<config, testnet, alive, peers, uns, sweep, acc, sel, dl, bc, met>>

\* the list arrives: its entries are admitted and discoverPeers() resolves
ListOk(list) ==
  /\ disc.pc = "listing"
  /\ peers' = Admit(peers, list)
  /\ disc' = [disc EXCEPT !.pc = "done", !.got = list, !.before = peers]
  /\ UNCHANGED <<config, testnet, alive, now, uns, sweep, acc, sel, dl, bc, met>>

\* the request for the list fails
ListFail ==
  /\ disc.pc = "listing"
  /\ disc' = [disc EXCEPT !.pc = "listFailed"]
  /\ UNCHANGED <<config, testnet, alive, peers, now, uns, sweep, acc, sel, dl, bc, met>>

\* catch (error) { return this.discoverPeers() }
ListRetry ==
  /\ disc.pc = "listFailed"
  /\ \E e \in now..MaxTime : now' = e /\ disc' \in DiscoverSelect(peers, now, e)
  /\ UNCHANGED <<config, testnet, alive, peers, uns, sweep, acc, sel, dl, bc, met>>

\* one step of a running discoverPeers(): a settled request and its continuation
DiscoverStep ==
  \/ \E list \in PeerLists : ListOk(list)
  \/ ListFail
  \/ ListRetry

DiscoverNext ==
  \/ Tick
  \/ DiscoverPeers
  \/ DiscoverStep

\* every request settles and every continuation runs
FairDiscover == UseInit /\ [][DiscoverNext]_vars /\ WF_vars(DiscoverStep)

(* ------------------- network height and forging status --------------- *)

\* the state a Peer reports when pinged; height 0 stands for no height reported
ChainHeights == {0, 9, 10, 100}
Slots == {7, 8}
MetricStates == [height : ChainHeights, currentSlot : Slots, forgingAllowed : BOOLEAN]
MetricAddr == {"10.0.0.1", "10.0.0.2", "10.0.0.3"}
MetricRegistries ==
  UNION {{ps \in [S -> [ip : S, port : {4001}, ban : {0}, delay : {0},
                        downloadSize : {0}, state : MetricStates]]
            : \A a \in S : ps[a].ip = a}
           : S \in SUBSET MetricAddr}

\* String(n) of a natural number, as its decimal digits
RECURSIVE String(_)
String(n) == IF n < 10 THEN <<n>> ELSE Append(String(n \div 10), n % 10)

\* a < b for two strings of digits, compared code unit by code unit
RECURSIVE StringLess(_, _)
StringLess(a, b) ==
  IF a = <<>> THEN b # <<>>
  ELSE IF b = <<>> THEN FALSE
  ELSE IF Head(a) # Head(b) THEN Head(a) < Head(b)
  ELSE StringLess(Tail(a), Tail(b))

\* the comparison of Array.prototype.sort() without a compare function: the
\* elements are converted to strings
DefaultLess(x, y) == StringLess(String(x), String(y))

RECURSIVE Insert(_, _)
Insert(x, q) ==
  IF q = <<>> THEN <<x>>
  ELSE IF DefaultLess(x, Head(q)) THEN <<x>> \o q
  ELSE <<Head(q)>> \o Insert(x, Tail(q))

\* q.sort()
RECURSIVE Sort(_)
Sort(q) == IF q = <<>> THEN <<>> ELSE Insert(Head(q), Sort(Tail(q)))

\* Object.values(this.peers).filter(peer => peer.state.height)
\*   .map(peer => peer.state.height)
RECURSIVE HeightsOf(_)
HeightsOf(ps) ==
  IF DOMAIN ps = {} THEN <<>>
  ELSE LET k == CHOOSE x \in DOMAIN ps : TRUE
           rest == HeightsOf(Delete(ps, k))
       IN  IF ps[k].state.height # 0 THEN <<ps[k].state.height>> \o rest ELSE rest

\* getNetworkHeight(): median[~~(median.length / 2)], undefined of an empty array
getNetworkHeight(ps) ==
  LET median == Sort(HeightsOf(ps))
  IN  IF median = <<>> THEN NoData ELSE <<median[(Len(median) \div 2) + 1]>>

\* a / b of two natural numbers
Divide(a, b) ==
  IF b # 0 THEN [kind |-> "number", num |-> a, den |-> b]
  ELSE IF a = 0 THEN [kind |-> "NaN", num |-> a, den |-> b]
  ELSE [kind |-> "Infinity", num |-> a, den |-> b]

\* getPBFTForgingStatus() when slots.getSlotNumber() is slot; h >= undefined is
\* false
getPBFTForgingStatus(ps, slot) ==
  LET height == getNetworkHeight(ps)
      syncedPeers == {k \in DOMAIN ps : ps[k].state.currentSlot = slot}
      okForging ==
        {k \in syncedPeers : /\ ps[k].state.forgingAllowed
                             /\ height # NoData
                             /\ ps[k].state.height >= height[1]}
  IN  Divide(Cardinality(okForging), Cardinality(syncedPeers))

MetricInit ==
  /\ config = UseConfig
  /\ testnet = FALSE
  /\ alive = Constructed(config)
  /\ peers \in MetricRegistries
  /\ now = 1
  /\ uns = UnsIdle
  /\ sweep = NoSweeps
  /\ acc = NoAccept
  /\ sel = NoSelect
  /\ dl = NoDownload
  /\ bc = NoBroadcast
  /\ met = NoMetric
  /\ disc = NoDiscover

\* getNetworkHeight() is called
GetNetworkHeight ==
  /\ alive
  /\ met' = [NoMetric EXCEPT !.op = "getNetworkHeight", !.height = getNetworkHeight(peers)]
  /\ UNCHANGED <<config, testnet, alive, peers, now, uns, sweep, acc, sel, dl, bc, disc>>

\* getPBFTForgingStatus() is called in slot slot
GetPBFTForgingStatus(slot) ==
  /\ alive
  /\ met' = [op |-> "getPBFTForgingStatus", slot |-> slot,
             height |-> getNetworkHeight(peers),
             ratio |-> getPBFTForgingStatus(peers, slot)]
  /\ UNCHANGED <<config, testnet, alive, peers, now, uns, sweep, acc, sel, dl, bc, disc>>

MetricNext ==
  \/ GetNetworkHeight
  \/ \E slot \in Slots : GetPBFTForgingStatus(slot)

SpecMetrics == MetricInit /\ [][MetricNext]_vars

(* -------------------- acceptNewPeer on a registry --------------------- *)

\* a manager with any registry, in testnet mode or not
AcceptInit ==
  /\ config = UseConfig
  /\ testnet \in BOOLEAN
  /\ alive = Constructed(config)
  /\ peers \in Registries
  /\ now = 1
  /\ uns = UnsIdle
  /\ sweep = NoSweeps
  /\ acc = NoAccept
  /\ sel = NoSelect
  /\ dl = NoDownload
  /\ bc = NoBroadcast
  /\ met = NoMetric
  /\ disc = NoDiscover

AcceptNext ==
  \/ \E cand \in Candidates : AcceptNewPeer(cand)
  \/ \E lat \in Latencies : AcceptProbeOk(lat)
  \/ AcceptProbeFail

\* acceptNewPeer by itself, with every candidate
SpecAccept == AcceptInit /\ [][AcceptNext]_vars

(* ------------------------------ the claims ---------------------------- *)

\* C1: the registry holds no entry for the node's own listening (address, port)
\* pair, 127.0.0.1 with config.server.port.  As stated; the re-seed of
\* updateNetworkStatus breaks it.
C1_NoSelfEntry ==
  ~(Loopback \in DOMAIN peers /\ peers[Loopback].port = config.port)

\* C2, as stated: when a sweep that started with N peers, M of which failed their
\* probe, returns, the count its summary reports is the number of probes that
\* were answered, N - M, and the registry has that many entries, whatever else
\* completed meanwhile.
C2_SweepLeavesExactlyResponsive ==
  [][\A w \in Owners : (sweep[w].pc = "probing" /\ sweep'[w].pc = "idle") =>
       /\ Summary(sweep[w]) = sweep[w].count
       /\ Size(peers) = sweep[w].count]_vars

\* C2, amended: the count reported is N - M in every execution, and the registry
\* has N - M entries when the sweep returns provided nothing else changed the
\* registry while the sweep ran.
C2_SweepLeavesResponsiveWhenAlone ==
  [][\A w \in Owners : (sweep[w].pc = "probing" /\ sweep'[w].pc = "idle") =>
       /\ Summary(sweep[w]) = sweep[w].count
       /\ ~sweep[w].touched => Size(peers) = sweep[w].count]_vars

\* the probes of an undisturbed sweep have all settled, one or more failed and
\* one or more answered: the sweep is about to return
C2_Witness ==
  \E w \in Owners :
    /\ sweep[w].pc = "probing" /\ sweep[w].pending = {} /\ ~sweep[w].touched
    /\ sweep[w].wrongpeers >= 1 /\ sweep[w].count >= 1

\* C3, as stated: getRandomPeer(D) with D given never returns a peer whose latency
\* exceeds D, and with no peer passing the ban and latency filters it fails with
\* NoEligiblePeer, without calling itself again.
C3_RandomPeerWithinDelay ==
  (sel.op = "getRandomPeer" /\ sel.D # NotPassed) =>
    /\ sel.out.kind = "peer" =>
         (peers[sel.out.ip].delay <= sel.D[1] /\ ~sel.out.retried)
    /\ {k \in DOMAIN peers : peers[k].ban < sel.called /\ peers[k].delay <= sel.D[1]} = {}
         => sel.out.kind = "NoEligiblePeer"

\* C4: a peer returned by getRandomPeer or getRandomDownloadBlocksPeer (its
\* fallback included) has a ban expiry that is not after the clock at which the
\* call returns it.
C4_SelectedNotBanned ==
  sel.out.kind = "peer" => peers[sel.out.ip].ban <= sel.at

\* getRandomDownloadBlocksPeer fell back to getRandomPeer (the peer returned is
\* full) and returned a peer while another registered peer was banned
C4_Witness ==
  /\ sel.op = "getRandomDownloadBlocksPeer" /\ sel.out.kind = "peer"
  /\ peers[sel.out.ip].downloadSize = 100
  /\ \E k \in DOMAIN peers : peers[k].ban > sel.at

\* C5, as stated: acceptNewPeer of a candidate with another network hash fails
\* with WrongNetwork and leaves the registry as it was.
C5_WrongNetworkRejected ==
  (acc.result # "none" /\ acc.cand.nethash # config.nethash) =>
    (acc.result = "WrongNetwork" /\ ~acc.changed)

\* C5, amended: it does so when the candidate's address is not registered and
\* the node is not in testnet mode.
C5_WrongNetworkRejectedWhenNew ==
  (acc.result # "none" /\ acc.cand.nethash # config.nethash
     /\ ~acc.known /\ ~testnet) =>
    (acc.result = "WrongNetwork" /\ ~acc.changed)

\* a loopback candidate of another network was rejected as WrongNetwork while
\* peers were registered
C5_Witness ==
  /\ acc.result = "WrongNetwork" /\ acc.cand.ip = Loopback
  /\ Size(peers) >= 1

\* C6: acceptNewPeer of a candidate with a loopback address fails with
\* LocalhostRejected and leaves the registry as it was.  The candidates are those
\* that come to the loopback check: the address is not registered, the node is
\* not in testnet mode and the network hash is the local one.  As stated; the
\* check compares with two spellings and lets ::1 pass to the ping.
C6_LoopbackRejected ==
  (acc.result # "none" /\ isLocalhost(acc.cand.ip)
     /\ ~acc.known /\ ~testnet /\ acc.cand.nethash = config.nethash) =>
    (acc.result = "LocalhostRejected" /\ ~acc.changed)

\* C7: outside testnet mode a candidate that is not registered, of the local
\* network and not loopback is probed; when the probe is answered its address is
\* registered as the call returns, and when the probe fails the call returns
\* without an error and without a change of the registry.
C7_ProbedThenAddedOrDropped ==
  (acc.result # "none" /\ ~acc.known /\ ~testnet
     /\ acc.cand.nethash = config.nethash /\ ~isLocalhost(acc.cand.ip)) =>
    /\ acc.result \in {"probing", "added", "dropped"}
    /\ acc.result = "added" => acc.listed
    /\ acc.result = "dropped" => ~acc.changed

\* a remote candidate was probed and stored next to another peer
C7_Witness ==
  /\ acc.result = "added" /\ acc.listed /\ acc.changed
  /\ ~isLocalhost(acc.cand.ip) /\ Size(peers) >= 2

\* C8: acceptNewPeer returns at once, without an error, a probe or a change of
\* the registry, when the candidate's address is registered or the node is in
\* testnet mode, whatever the candidate's network hash and address.
C8_SilentNoop ==
  (acc.result # "none" /\ (acc.known \/ testnet)) =>
    (acc.result = "noop" /\ ~acc.changed)

\* a registered address was offered again, with another network hash, outside
\* testnet mode
C8_Witness ==
  /\ acc.result = "noop" /\ acc.known /\ ~testnet
  /\ acc.cand.nethash # config.nethash

\* C9, as stated: broadcastBlock completes only when every send has settled, and
\* it completes without raising whichever sends fail.
C9_BroadcastBestEffort ==
  bc.pc \in {"resolved", "rejected"} => (bc.pc = "resolved" /\ bc.unsettled = 0)

\* C10, as stated: a downloadBlocks that pinged a peer ends (with the blocks or
\* with an error) in every execution, also when every ping keeps failing.
C10_DownloadEnds ==
  (dl.pc = "pinging") ~> (dl.pc \in {"returned", "rejected"})

\* C11: a discoverPeers() that has asked a peer for its list ends, with the
\* list admitted or with an error, after a bounded number of attempts.
C11_DiscoveryEnds ==
  (disc.pc = "listing") ~> (disc.pc \in {"done", "rejected"})

\* C12: an updateNetworkStatus() whose sweep is under way returns, whatever
\* the probes answer.
C12_UpdateEnds ==
  (uns.pc = "sweeping") ~> (uns.pc = "idle")

\* C13: getNetworkHeight returns the element at index floor(n / 2) of the n
\* non-zero heights in ascending numeric order (as many heights are below it as
\* the index allows), and no data when no peer reports a height.
C13_NumericMedian ==
  met.op = "getNetworkHeight" =>
    LET known == {k \in DOMAIN peers : peers[k].state.height # 0}
        n == Cardinality(known)
        below(v) == Cardinality({k \in known : peers[k].state.height < v})
        upTo(v) == Cardinality({k \in known : peers[k].state.height <= v})
    IN  IF n = 0 THEN met.height = NoData
        ELSE /\ met.height # NoData
             /\ below(met.height[1]) <= n \div 2
             /\ n \div 2 < upTo(met.height[1])

\* C14: getPBFTForgingStatus returns the share of the current-slot peers that
\* may forge and are at or above the network height, and a value that is no
\* number and not NaN when no peer is in the current slot.
C14_ForgingShare ==
  met.op = "getPBFTForgingStatus" =>
    LET syncedPeers == {k \in DOMAIN peers : peers[k].state.currentSlot = met.slot}
        okForging ==
          {k \in syncedPeers : /\ peers[k].state.forgingAllowed
                               /\ met.height # NoData
                               /\ peers[k].state.height >= met.height[1]}
    IN  IF syncedPeers = {} THEN met.ratio.kind \notin {"number", "NaN", "Infinity"}
        ELSE /\ met.ratio.kind = "number"
             /\ met.ratio.num = Cardinality(okForging)
             /\ met.ratio.den = Cardinality(syncedPeers)

\* C15: getRandomDownloadBlocksPeer returns a peer that is not banned and not
\* full whenever one is registered when it is called, and what getRandomPeer()
\* returns only when none is.
C15_DownloadPeerHasCapacity ==
  sel.op = "getRandomDownloadBlocksPeer" =>
    LET free(t) == {k \in DOMAIN peers : peers[k].ban < t /\ peers[k].downloadSize # 100}
    IN  IF free(sel.called) # {}
          THEN sel.out.kind = "peer" /\ sel.out.ip \in free(sel.at)
          ELSE sel.out \in getRandomPeer(peers, sel.called, sel.at, NotPassed)

\* getRandomDownloadBlocksPeer returned a peer with capacity while a full peer
\* that is not banned was registered too
C15_Witness ==
  /\ sel.op = "getRandomDownloadBlocksPeer" /\ sel.out.kind = "peer"
  /\ peers[sel.out.ip].downloadSize # 100
  /\ \E k \in DOMAIN peers : peers[k].downloadSize = 100 /\ peers[k].ban < sel.called

\* C16: a configuration whose seed list has no entry is refused like one with
\* no seed list: no manager is constructed.
C16_EmptyListRefused ==
  (config.hasList /\ config.list = <<>>) => ~alive

\* C17: when discoverPeers has admitted a list, every entry registered before is
\* still registered, unchanged, and every entry that is new has an address the
\* list gives with status OK and that is no loopback address.
C17_DiscoveryFrame ==
  disc.pc = "done" =>
    /\ \A k \in DOMAIN disc.before : k \in DOMAIN peers /\ peers[k] = disc.before[k]
    /\ \A k \in DOMAIN peers \ DOMAIN disc.before :
         /\ ~isLocalhost(k)
         /\ \E i \in 1..Len(disc.got) : disc.got[i].ip = k /\ disc.got[i].status = "OK"

\* a list was admitted into a registry that was not empty and an entry was added
C17_Witness ==
  /\ disc.pc = "done"
  /\ DOMAIN disc.before # {}
  /\ DOMAIN peers # DOMAIN disc.before

\* C18: a running updateNetworkStatus returns only from the check that follows
\* a sweep, with a registry of list.length - 1 entries or more; and when that
\* check finds fewer, or the pass raised an error, it goes on to another pass
\* with every address of the seed list registered as a fresh Peer of the list.
C18_ReturnOnlyWhenPopulated ==
  [][/\ (uns.pc # "idle" /\ uns'.pc = "idle") =>
          (uns.pc = "swept" /\ Size(peers') >= Len(config.list) - 1)
     /\ ((\/ uns.pc = "swept" /\ Size(peers) < Len(config.list) - 1
          \/ uns.pc = "caught") /\ uns' # uns) =>
          /\ uns'.pc # "idle"
          /\ \A i \in 1..Len(config.list) :
               /\ config.list[i].ip \in DOMAIN peers'
               /\ \E j \in 1..Len(config.list) :
                    /\ config.list[j].ip = config.list[i].ip
                    /\ peers'[config.list[i].ip]
                         = NewPeer(config.list[j].ip, config.list[j].port)]_vars

\* the sweep of a pass has returned and left fewer entries than list.length - 1
C18_Witness ==
  /\ ~testnet /\ uns.pc = "swept"
  /\ Size(peers) < Len(config.list) - 1

\* C19: cleanPeers logs its summary and returns only when every probe it sent
\* has settled: each peer registered at its start was counted as answering or
\* as failing.
C19_SweepJoinsAllProbes ==
  [][\A w \in Owners : (sweep[w].pc = "probing" /\ sweep'[w].pc = "idle") =>
       /\ sweep[w].pending = {}
       /\ sweep[w].count + sweep[w].wrongpeers = sweep[w].max]_vars

\* a probe of a sweep of two peers or more has failed while another probe of it
\* is still out
C19_Witness ==
  \E w \in Owners :
    /\ sweep[w].pc = "probing" /\ sweep[w].max >= 2
    /\ sweep[w].wrongpeers >= 1 /\ sweep[w].pending # {}

\* C20: a failing probe of a sweep does not remove an entry that another
\* operation (acceptNewPeer after its own answered ping) registered under the
\* probed address after the sweep had sent the probe.
C20_EvictsOnlyProbedEntry ==
  [][\A w \in Owners : \A ip \in sweep[w].stale :
       (/\ sweep[w].pc = "probing" /\ ip \in sweep[w].pending
        /\ ip \notin sweep'[w].pending /\ ip \in DOMAIN peers)
         => ip \in DOMAIN peers']_vars

====
